---- MODULE Spec2Model ----
(***************************************************************************)
(* Model of lottus.py: the Lottus application object (process_request,     *)
(* process_window, get_selected_option, get_window, get_mapped_window,     *)
(* add_window_rule), the record constructors and the response projection.  *)
(*                                                                         *)
(* Python values are modelled as follows.  A dict is a record or a         *)
(* function whose domain is the set of keys present; the Python value None *)
(* is the record None below.  A list that may be None is wrapped by ListOf *)
(* so that it can be compared with None.  A Python exception (TypeError on *)
(* subscripting None, on iterating None, on item assignment into None) is  *)
(* the outcome raised = TRUE: the statements before the faulting line have *)
(* taken effect, the ones after it have not.                               *)
(*                                                                         *)
(* The collaborators are the simplest conforming ones: the session manager *)
(* and the window cache are dictionaries that hand out and store copies.   *)
(***************************************************************************)
EXTENDS Integers, Sequences, FiniteSets, TLC

VARIABLES initial_window, windows, session_manager, window_cache,
          mapped_windows, nreq, last, response

vars == <<initial_window, windows, session_manager, window_cache,
          mapped_windows, nreq, last, response>>

(* ------------------------------ bounds -------------------------------- *)
MaxSessions == 2
MaxRequests == 4
MaxOptions == 2

(* ------------------------- Python value helpers ----------------------- *)
None == [none |-> TRUE]

ListOf(s) == [list |-> s]

EmptyDict == [k \in {} |-> "x"]

Put(d, k, v) == [x \in (DOMAIN d) \cup {k} |-> IF x = k THEN v ELSE d[x]]

(* ------------------------- record constructors ------------------------ *)
create_session(session_nr, cell_nr, window_name, variables) ==
    [session_nr |-> session_nr, variables |-> variables,
     cell_nr |-> cell_nr, window |-> window_name]

create_request(session_nr, cell_nr, request_str) ==
    [session_nr |-> session_nr, cell_nr |-> cell_nr, request_str |-> request_str]

\* the parameter required is accepted and not stored
create_window(name, title, message, options, required, active, window_type) ==
    [name |-> name, message |-> message, title |-> title,
     options |-> options, active |-> active, type |-> window_type]

create_option(option, display, window, active) ==
    [option |-> option, display |-> display, window |-> window, active |-> active]

create_required(variable, window, in_options, var_type, var_length) ==
    [var |-> variable, window |-> window, in_options |-> in_options,
     type |-> var_type, length |-> var_length]

create_error_window(message) ==
    create_window("ERROR", "ERROR", message, None, None, TRUE, "MESSAGE")

\* a window dict written out by the application, with a 'required' key
WithRequired(w, required) ==
    [k \in (DOMAIN w) \cup {"required"} |-> IF k = "required" THEN required ELSE w[k]]

(* --------------------- the application's windows ---------------------- *)
ValidationPrompt == "Please select a valid option"

SessionNrs == 1..MaxSessions

CellNrs == {"cell"}

RequestStrs == {"1", "2", "3", "a", "A", "11"}

Requests ==
    {create_request(n, c, r) : n \in SessionNrs, c \in CellNrs, r \in RequestStrs}

\* an option dict written out by the application, with a 'value' key
WithValue(o, value) ==
    [k \in (DOMAIN o) \cup {"value"} |-> IF k = "value" THEN value ELSE o[k]]

MenuOptions ==
    << create_option("1", "Age", "AGE", TRUE),
       create_option("2", "City", "CITY", TRUE),
       create_option("1", "Dup", "DONE", TRUE),
       create_option("3", "Bad", "BAD", TRUE),
       create_option("a", "Dyn", "DYN", TRUE) >>

CityOptions ==
    << create_option("1", "Maputo", "END", TRUE),
       create_option("2", "Beira", "END", TRUE) >>

LostOptions ==
    << create_option("1", "One", "END", TRUE),
       WithValue(create_option("2", "Two", "END", TRUE), "TWO") >>

DynOptions ==
    << create_option("1", "Menu", "MENU", TRUE),
       create_option("2", "Done", "DONE", TRUE),
       create_option("3", "Nowhere", "NOWHERE", TRUE),
       create_option("a", "End", "END", TRUE),
       create_option("A", "Lost", "LOST", TRUE),
       create_option("11", "Pin", "PIN", TRUE) >>

\* the required spec handed to create_window for the window PIN
PinRequired == create_required("pin", "END", FALSE, "numeric", "11")

\* the dict handed to the constructor as `windows`
StaticWindows ==
    [n \in {"MENU", "AGE", "CITY", "BAD", "LOST", "DYN", "DONE", "END", "PIN"} |->
       CASE n = "MENU" -> create_window("MENU", "Menu", "Choose", ListOf(MenuOptions), None, TRUE, "FORM")
         [] n = "AGE"  -> WithRequired(
                             create_window("AGE", "Age", "Your age", ListOf(<< >>), None, TRUE, "FORM"),
                             create_required("age", "CITY", FALSE, "numeric", "11"))
         [] n = "CITY" -> WithRequired(
                             create_window("CITY", "City", "Your city", ListOf(CityOptions), None, TRUE, "FORM"),
                             create_required("city", "END", TRUE, "numeric", "11"))
         [] n = "BAD"  -> WithRequired(
                             create_window("BAD", "Bad", "No target", ListOf(<< >>), None, TRUE, "FORM"),
                             [var |-> "x", in_options |-> FALSE])
         [] n = "LOST" -> WithRequired(
                             create_window("LOST", "Lost", "Unknown target", ListOf(LostOptions), None, TRUE, "FORM"),
                             create_required("x", "NOWHERE", TRUE, "numeric", "11"))
         [] n = "DYN"  -> create_window("DYN", "Dyn", "Static", ListOf(DynOptions), None, TRUE, "FORM")
         [] n = "DONE" -> create_window("DONE", "Done", "Bye", None, None, TRUE, "MESSAGE")
         [] n = "END"  -> create_window("END", "End", "Thanks", ListOf(<< >>), None, TRUE, "FORM")
         [] n = "PIN"  -> create_window("PIN", "Pin", "Your pin", ListOf(<< >>), PinRequired, TRUE, "FORM")]

InitialWindows == {"MENU", "DYN", "NOWHERE"}

\* names a processor may be registered under, and the processors
MappedNames == {"DYN"}

ProcessorKinds == {"keep", "replace"}

\* a processor registered with add_window_rule: it builds the window of its
\* name afresh from the request; "keep" hands back the session it was given,
\* "replace" hands back a new session dict with a variables mapping
Processor(kind, window_name, session, request) ==
    [window  |-> create_window(window_name, "Dyn", request.request_str,
                               ListOf(DynOptions), None, TRUE, "FORM"),
     session |-> IF kind = "replace"
                 THEN [session EXCEPT !.variables =
                          Put(IF session.variables = None THEN EmptyDict
                              ELSE session.variables, "seen", "yes")]
                 ELSE session]

(* --------------------------- collaborators ---------------------------- *)
NoScope == 0

\* WindowCache.get(window_name, session_nr = None)
CacheGet(cache, window_name, session_nr) ==
    IF <<session_nr, window_name>> \in DOMAIN cache.entries
    THEN cache.entries[<<session_nr, window_name>>]
    ELSE None

\* WindowCache.cache(window, session_nr = None)
CachePut(cache, window, session_nr) ==
    [cache EXCEPT !.entries = Put(@, <<session_nr, window.name>>, window)]

\* SessionManager.get(session_nr, cell_nr)
SessionGet(store, session_nr, cell_nr) ==
    IF <<session_nr, cell_nr>> \in DOMAIN store
    THEN store[<<session_nr, cell_nr>>]
    ELSE None

\* SessionManager.save(session)
SessionSave(store, session) ==
    Put(store, <<session.session_nr, session.cell_nr>>, session)

(* ------------------------------ Lottus -------------------------------- *)
\* self.windows[window_name] if window_name in self.windows else None
get_window(wins, window_name) ==
    IF window_name \in DOMAIN wins THEN wins[window_name] ELSE None

\* callers test `window_name in self.mapped_windows` before the call
get_mapped_window(mapped, window_name, session, request) ==
    Processor(mapped[window_name], window_name, session, request)

Lower(str) == IF str = "A" THEN "a" ELSE str

\* options are compared without regard to case
get_selected_option_IgnoreCase(window, request) ==
    LET options == window.options IN
    IF options = None
    THEN [raised |-> TRUE, option |-> None]
    ELSE LET hits == {i \in 1..Len(options.list) :
                         Lower(options.list[i].option) = Lower(request.request_str)}
         IN  [raised |-> FALSE,
              option |-> IF hits = {} THEN None
                         ELSE options.list[CHOOSE i \in hits : \A j \in hits : i <= j]]

\* the last matching option is taken
get_selected_option_LastMatch(window, request) ==
    LET options == window.options IN
    IF options = None
    THEN [raised |-> TRUE, option |-> None]
    ELSE LET hits == {i \in 1..Len(options.list) :
                         options.list[i].option = request.request_str}
         IN  [raised |-> FALSE,
              option |-> IF hits = {} THEN None
                         ELSE options.list[CHOOSE i \in hits : \A j \in hits : i >= j]]

\* next((s for s in options if s['option'] == request_str), None);
\* iterating options = None is a TypeError
get_selected_option(window, request) ==
    LET options == window.options IN
    IF options = None
    THEN [raised |-> TRUE, option |-> None]
    ELSE LET hits == {i \in 1..Len(options.list) :
                         options.list[i].option = request.request_str}
         IN  [raised |-> FALSE,
              option |-> IF hits = {} THEN None
                         ELSE options.list[CHOOSE i \in hits : \A j \in hits : i <= j]]

\* the variables are replaced by a dict that holds the captured entry only
SetVariable_Reset(session, var, value) ==
    IF session.variables = None
    THEN [raised |-> TRUE, session |-> session]
    ELSE [raised |-> FALSE,
          session |-> [session EXCEPT !.variables = Put(EmptyDict, var, value)]]

\* session['variables'][var] = value; item assignment into None is a TypeError
SetVariable(session, var, value) ==
    IF session.variables = None
    THEN [raised |-> TRUE, session |-> session]
    ELSE [raised |-> FALSE,
          session |-> [session EXCEPT !.variables = Put(@, var, value)]]

\* actual_window['message'] = "Please select a valid option": the dict that
\* was resolved is changed in place; a dict held by self.windows is that
\* same dict
SetMessage(wins, source, window_name, window) ==
    IF source = "static"
    THEN [wins EXCEPT ![window_name] = [window EXCEPT !.message = ValidationPrompt]]
    ELSE wins

\* the processor is asked before the cache
ResolveActual_ResolverFirst(session, request, wins, cache, mapped) ==
    LET actual_window_name == session.window
        call     == actual_window_name \in DOMAIN mapped
        fromMap  == IF call
                    THEN get_mapped_window(mapped, actual_window_name, session, request).window
                    ELSE None
        scoped   == IF cache.configured /\ fromMap = None
                    THEN CacheGet(cache, actual_window_name, request.session_nr)
                    ELSE None
        unscoped == IF cache.configured /\ fromMap = None /\ scoped = None
                    THEN CacheGet(cache, actual_window_name, NoScope)
                    ELSE None
        cached   == IF scoped # None THEN scoped ELSE unscoped
        static   == IF cached = None /\ fromMap = None
                    THEN get_window(wins, actual_window_name)
                    ELSE None
    IN  [window  |-> IF fromMap # None THEN fromMap
                     ELSE IF cached # None THEN cached ELSE static,
         source  |-> IF fromMap # None THEN "mapped"
                     ELSE IF scoped # None THEN "scoped"
                     ELSE IF unscoped # None THEN "unscoped"
                     ELSE IF static # None THEN "static" ELSE "none",
         invoked |-> IF call THEN <<actual_window_name>> ELSE << >>]

\* lines 76-90: the window the session is at
ResolveActual(session, request, wins, cache, mapped) ==
    LET actual_window_name == session.window
        scoped   == IF cache.configured
                    THEN CacheGet(cache, actual_window_name, request.session_nr)
                    ELSE None
        unscoped == IF cache.configured /\ scoped = None
                    THEN CacheGet(cache, actual_window_name, NoScope)
                    ELSE None
        cached   == IF scoped # None THEN scoped ELSE unscoped
        call     == cached = None /\ actual_window_name \in DOMAIN mapped
        fromMap  == IF call
                    THEN get_mapped_window(mapped, actual_window_name, session, request).window
                    ELSE None
        static   == IF cached = None /\ fromMap = None
                    THEN get_window(wins, actual_window_name)
                    ELSE None
    IN  [window  |-> IF cached # None THEN cached
                     ELSE IF fromMap # None THEN fromMap ELSE static,
         source  |-> IF scoped # None THEN "scoped"
                     ELSE IF unscoped # None THEN "unscoped"
                     ELSE IF fromMap # None THEN "mapped"
                     ELSE IF static # None THEN "static" ELSE "none",
         invoked |-> IF call THEN <<actual_window_name>> ELSE << >>]

\* the outcome of process_window: the pair it returns, or raised, with the
\* registry and the cache as the call leaves them
Outcome(raised, window, session, wins, cache, actual, selected, invoked) ==
    [raised |-> raised, window |-> window, session |-> session,
     windows |-> wins, window_cache |-> cache,
     actual |-> actual, selected |-> selected, invoked |-> invoked]

\* lines 101-119: the window declares `required`
ProcessRequired(session, request, wins, cache, r, required) ==
    LET actual_window == r.window
        wins2    == SetMessage(wins, r.source, session.window, actual_window)
    IN
    IF "window" \in DOMAIN required
    THEN IF "in_options" \in DOMAIN required /\ required.in_options = TRUE
         THEN LET sel == get_selected_option(actual_window, request) IN
              IF sel.raised
              THEN Outcome(TRUE, None, session, wins, cache, r, None, r.invoked)
              ELSE IF sel.option # None
              THEN LET set == SetVariable(session, required.var,
                                  IF "value" \in DOMAIN sel.option
                                  THEN sel.option.value ELSE sel.option.option)
                   IN  IF set.raised
                       THEN Outcome(TRUE, None, session, wins, cache, r, sel.option, r.invoked)
                       ELSE Outcome(FALSE, get_window(wins, required.window), set.session,
                                    wins, cache, r, sel.option, r.invoked)
              \* window = actual_window is overwritten by line 117
              ELSE Outcome(FALSE, get_window(wins2, required.window), session,
                           wins2, cache, r, None, r.invoked)
         ELSE LET set == SetVariable(session, required.var, request.request_str) IN
              IF set.raised
              THEN Outcome(TRUE, None, session, wins, cache, r, None, r.invoked)
              ELSE Outcome(FALSE, get_window(wins, required.window), set.session,
                           wins, cache, r, None, r.invoked)
    \* the result of create_error_window is dropped; window stays None
    ELSE Outcome(FALSE, None, session, wins, cache, r, None, r.invoked)

\* lines 120-133: no `required`
ProcessOptions(session, request, wins, cache, mapped, r) ==
    LET actual_window == r.window
        sel == get_selected_option(actual_window, request)
    IN
    IF sel.raised
    THEN Outcome(TRUE, None, session, wins, cache, r, None, r.invoked)
    ELSE IF sel.option = None
    THEN Outcome(FALSE, [actual_window EXCEPT !.message = ValidationPrompt], session,
                 SetMessage(wins, r.source, session.window, actual_window),
                 cache, r, None, r.invoked)
    ELSE IF sel.option.window \in DOMAIN mapped
    THEN LET m == get_mapped_window(mapped, sel.option.window, session, request) IN
         Outcome(FALSE, m.window, m.session, wins,
                 IF cache.configured THEN CachePut(cache, m.window, request.session_nr)
                 ELSE cache,
                 r, sel.option, Append(r.invoked, sel.option.window))
    ELSE Outcome(FALSE, get_window(wins, sel.option.window), session, wins, cache,
                 r, sel.option, r.invoked)

process_window(session, request, wins, cache, mapped) ==
    LET r == ResolveActual(session, request, wins, cache, mapped)
        actual_window == r.window
    IN
    \* line 92: actual_window['options'] with actual_window = None
    IF actual_window = None
    THEN Outcome(TRUE, None, session, wins, cache, r, None, r.invoked)
    ELSE LET required == IF "required" \in DOMAIN actual_window
                         THEN actual_window.required ELSE None
         IN  IF required # None
             THEN ProcessRequired(session, request, wins, cache, r, required)
             ELSE ProcessOptions(session, request, wins, cache, mapped, r)

\* the outcome of process_request: the window it returns and the session it
\* hands to session_manager.save, or raised
Result(request, found, o, raised, window, saved, cached) ==
    [request |-> request, found |-> found, raised |-> raised,
     window |-> window, saved |-> saved,
     saves |-> IF saved = None THEN 0 ELSE 1,
     actual |-> o.actual.window, source |-> o.actual.source,
     resolving |-> o.actual.invoked, invoked |-> o.invoked, selected |-> o.selected, cached |-> cached]

NoActual == [window |-> None, source |-> "-", invoked |-> << >>]

\* the initial window is always read from the static registry
FirstTurn_StaticOnly(request, wins, cache, mapped, initial) ==
    Outcome(FALSE, get_window(wins, initial),
            create_session(request.session_nr, request.cell_nr, initial, None),
            wins, cache, NoActual, None, << >>)

\* the initial window's processor is invoked but its window is not cached
FirstTurn_NoCache(request, wins, cache, mapped, initial) ==
    LET session == create_session(request.session_nr, request.cell_nr, initial, None) IN
    IF initial \in DOMAIN mapped
    THEN LET m == get_mapped_window(mapped, initial, session, request) IN
         Outcome(FALSE, m.window, m.session, wins, cache, NoActual, None, <<initial>>)
    ELSE Outcome(FALSE, get_window(wins, initial), session, wins, cache,
                 NoActual, None, << >>)

\* lines 53-61: no session in the store
FirstTurn(request, wins, cache, mapped, initial) ==
    LET session == create_session(request.session_nr, request.cell_nr, initial, None) IN
    IF initial \in DOMAIN mapped
    THEN LET m == get_mapped_window(mapped, initial, session, request) IN
         Outcome(FALSE, m.window, m.session, wins,
                 IF cache.configured THEN CachePut(cache, m.window, request.session_nr)
                 ELSE cache,
                 NoActual, None, <<initial>>)
    ELSE Outcome(FALSE, get_window(wins, initial), session, wins, cache,
                 NoActual, None, << >>)

\* the window pointer is left as it was
SetWindow_Skip(session, window) ==
    session

\* the window pointer is set to the window's title
SetWindow_Title(session, window) ==
    [session EXCEPT !.window = window.title]

\* line 65: session['window'] = window['name']
SetWindow(session, window) ==
    [session EXCEPT !.window = window.name]

process_request(request) ==
    LET found == SessionGet(session_manager, request.session_nr, request.cell_nr)
        o == IF found = None
             THEN FirstTurn(request, windows, window_cache, mapped_windows, initial_window)
             ELSE process_window(found, request, windows, window_cache, mapped_windows)
        \* lines 58-59 and 130-131: the processor's window goes to the cache
        cached == IF window_cache.configured /\ o.invoked # o.actual.invoked
                  THEN o.window ELSE None
        \* line 65: window['name'] with window = None is a TypeError
        raised == o.raised \/ o.window = None
        saved == IF raised THEN None ELSE SetWindow(o.session, o.window)
    IN  /\ windows' = o.windows
        /\ window_cache' = o.window_cache
        /\ session_manager' = IF raised THEN session_manager
                              ELSE SessionSave(session_manager, saved)
        /\ last' = Result(request, found, o, raised,
                          IF raised THEN None ELSE o.window, saved, cached)

NoLast ==
    [request |-> None, found |-> None, raised |-> FALSE, window |-> None,
     saved |-> None, saves |-> 0, actual |-> None, source |-> "-",
     resolving |-> << >>, invoked |-> << >>, selected |-> None, cached |-> None]

(* ------------------------ response projection ------------------------ *)
\* {'option': ..., 'value': option['display']} if option else None
option_response(option) ==
    IF option = None
    THEN None
    ELSE [option |-> option.option, value |-> option.display]

\* lines 339-343; `'options' in window` holds for options = None, and
\* iterating None is a TypeError
window_response(window) ==
    IF window = None
    THEN [raised |-> FALSE, value |-> None]
    ELSE IF "options" \in DOMAIN window /\ window.options = None
    THEN [raised |-> TRUE, value |-> None]
    ELSE [raised |-> FALSE,
          value |->
            [message |-> IF "message" \in DOMAIN window THEN window.message ELSE None,
             title   |-> IF "title" \in DOMAIN window THEN window.title ELSE None,
             options |-> IF "options" \in DOMAIN window
                         THEN [i \in 1..Len(window.options.list) |->
                                   option_response(window.options.list[i])]
                         ELSE << >>]]

\* no window has been handed to window_response
NoResponse == [window |-> None, done |-> FALSE, raised |-> FALSE, value |-> None]

(* ------------------------------ actions ------------------------------- *)
Init ==
    /\ initial_window \in InitialWindows
    /\ windows = StaticWindows
    /\ session_manager = EmptyDict
    /\ window_cache \in {[configured |-> c, entries |-> EmptyDict] : c \in BOOLEAN}
    /\ mapped_windows = EmptyDict
    /\ nreq = 0
    /\ last = NoLast
    /\ response = NoResponse

ProcessRequest(request) ==
    /\ nreq < MaxRequests
    /\ nreq' = nreq + 1
    /\ process_request(request)
    /\ UNCHANGED <<initial_window, mapped_windows, response>>

AddWindowRule(window_name, f) ==
    /\ window_name \notin DOMAIN mapped_windows
    /\ mapped_windows' = Put(mapped_windows, window_name, f)
    /\ UNCHANGED <<initial_window, windows, session_manager, window_cache, nreq, last,
                   response>>

\* the application stores a window in the cache without a session number
SharedWindow(window_name) ==
    create_window(window_name, "Shared", "Shared", ListOf(DynOptions), None, TRUE, "FORM")

CacheShared(window_name) ==
    /\ window_cache.configured
    /\ <<NoScope, window_name>> \notin DOMAIN window_cache.entries
    /\ window_cache' = CachePut(window_cache, SharedWindow(window_name), NoScope)
    /\ UNCHANGED <<initial_window, windows, session_manager, mapped_windows, nreq, last,
                   response>>

Next ==
    \/ \E request \in Requests : ProcessRequest(request)
    \/ \E window_name \in MappedNames, f \in ProcessorKinds : AddWindowRule(window_name, f)
    \/ \E window_name \in MappedNames : CacheShared(window_name)

Spec == Init /\ [][Next]_vars

(* ------------- window_response applied to a window on its own ---------- *)
ResponseOptions ==
    { create_option("1", "Maputo", "END", TRUE),
      create_option("2", "Beira", "NOWHERE", FALSE),
      WithValue(create_option("3", "Tete", "END", TRUE), "TET") }

OptionLists == UNION {[1..n -> ResponseOptions] : n \in 0..MaxOptions}

\* the windows handed to window_response: None, and windows with and
\* without an option list, a required spec, a replaced message
ResponseWindows ==
    LET plain == {create_window("W", "Title", m, o, None, TRUE, t) :
                     m \in {"Choose", ValidationPrompt},
                     o \in {None} \cup {ListOf(l) : l \in OptionLists},
                     t \in {"FORM", "MESSAGE"}}
    IN  {None, create_error_window("Error processing your request")}
          \cup plain
          \cup {WithRequired(w, PinRequired) : w \in plain}

InitResponse ==
    /\ initial_window = "MENU"
    /\ windows = StaticWindows
    /\ session_manager = EmptyDict
    /\ window_cache = [configured |-> FALSE, entries |-> EmptyDict]
    /\ mapped_windows = EmptyDict
    /\ nreq = 0
    /\ last = NoLast
    /\ response \in {[NoResponse EXCEPT !.window = w] : w \in ResponseWindows}

WindowResponse ==
    /\ ~response.done
    /\ LET r == window_response(response.window) IN
        response' = [window |-> response.window, done |-> TRUE,
                     raised |-> r.raised, value |-> r.value]
    /\ UNCHANGED <<initial_window, windows, session_manager, window_cache,
                   mapped_windows, nreq, last>>

NextResponse == WindowResponse

SpecResponse == InitResponse /\ [][NextResponse]_vars

(* ---------------- a closed configuration of static windows ------------- *)
ClosedMenuOptions ==
    << create_option("1", "Age", "AGE", TRUE),
       create_option("2", "City", "CITY", TRUE),
       create_option("3", "End", "END", TRUE) >>

ClosedEndOptions ==
    << create_option("1", "Menu", "MENU", TRUE) >>

\* every window has an option list, and every option's 'window' and every
\* required 'window' names a window of the dict
ClosedWindows ==
    [n \in {"MENU", "AGE", "CITY", "END"} |->
       CASE n = "MENU" -> create_window("MENU", "Menu", "Choose", ListOf(ClosedMenuOptions), None, TRUE, "FORM")
         [] n = "AGE"  -> StaticWindows["AGE"]
         [] n = "CITY" -> StaticWindows["CITY"]
         [] n = "END"  -> create_window("END", "End", "Thanks", ListOf(ClosedEndOptions), None, TRUE, "FORM")]

InitClosed ==
    /\ initial_window \in DOMAIN ClosedWindows
    /\ windows = ClosedWindows
    /\ session_manager = EmptyDict
    /\ window_cache = [configured |-> FALSE, entries |-> EmptyDict]
    /\ mapped_windows = EmptyDict
    /\ nreq = 0
    /\ last = NoLast
    /\ response = NoResponse

NextClosed == \E request \in Requests : ProcessRequest(request)

SpecClosed == InitClosed /\ [][NextClosed]_vars

(* ------------------------------ claims -------------------------------- *)
\* a step that is one process_request call; last' is its outcome and the
\* unprimed variables are the state the call started from
RequestStep == nreq' = nreq + 1

KeyOf(request) == <<request.session_nr, request.cell_nr>>

\* C1: after every process_request call that returns, save was called exactly
\* once, with a session whose 'window' is the name of the returned window;
\* the store then holds that session under the request's key (and nothing
\* else changed), and the call itself started from the stored session.
C1_SavedPointerIsReturnedWindow ==
    [][ RequestStep =>
          /\ last'.found = SessionGet(session_manager, last'.request.session_nr,
                                      last'.request.cell_nr)
          /\ ~last'.raised =>
                /\ last'.saves = 1
                /\ last'.saved.window = last'.window.name
                /\ session_manager' = Put(session_manager, KeyOf(last'.request), last'.saved)
          /\ last'.raised => (last'.saves = 0 /\ session_manager' = session_manager)
      ]_vars

\* a later turn returned a window other than the one the session was at
C1_Witness ==
    /\ last.request # None /\ ~last.raised /\ last.found # None
    /\ last.window.name # last.found.window
    /\ session_manager[KeyOf(last.request)].window = last.window.name

\* C2: when the store holds no session for the request's key and the initial
\* window is known, process_request returns the initial window (the
\* processor's window when one is registered under the initial name, else
\* the static registry entry) whatever request_str is, and saves a new
\* session for that key whose 'window' is that window's name.
C2_NewSessionSeeding ==
    [][ ( /\ RequestStep
          /\ KeyOf(last'.request) \notin DOMAIN session_manager
          /\ initial_window \in (DOMAIN windows) \cup (DOMAIN mapped_windows) ) =>
          LET request == last'.request
              fresh == create_session(request.session_nr, request.cell_nr,
                                      initial_window, None)
              expected == IF initial_window \in DOMAIN mapped_windows
                          THEN Processor(mapped_windows[initial_window], initial_window,
                                         fresh, request).window
                          ELSE windows[initial_window]
          IN  /\ ~last'.raised
              /\ last'.window = expected
              /\ last'.saved.window = expected.name
              /\ last'.saved.session_nr = request.session_nr
              /\ last'.saved.cell_nr = request.cell_nr
              /\ session_manager'[KeyOf(request)] = last'.saved
      ]_vars

\* a first turn answered by the processor registered under the initial name
C2_Witness ==
    /\ last.request # None /\ last.found = None /\ ~last.raised
    /\ last.invoked = <<initial_window>>
    /\ last.saved.window = initial_window
    /\ initial_window \in DOMAIN windows

(* Predicates on the outcome last' of a process_request step: the session
   was found in the store and its current window W = last'.actual was
   resolved.                                                               *)
LaterTurn == RequestStep /\ last'.found # None /\ last'.actual # None

RequiredOf(window) ==
    IF "required" \in DOMAIN window THEN window.required ELSE None

HasOptionList(window) == window.options # None

Matches(window, request_str) ==
    {i \in 1..Len(window.options.list) : window.options.list[i].option = request_str}

FirstMatch(window, request_str) ==
    window.options.list[CHOOSE i \in Matches(window, request_str) :
                            \A j \in Matches(window, request_str) : i <= j]

Reprompt(window) == [window EXCEPT !.message = ValidationPrompt]

\* C3: the session the engine creates on a first turn has an empty variables
\* mapping, and a later request at a window whose required spec captures
\* free text (target registered) is processed without a fault.
C3_FreshSessionHasEmptyVariables ==
    [][ /\ ( /\ RequestStep
             /\ last'.found = None /\ ~last'.raised /\ last'.invoked = << >> ) =>
               last'.saved.variables = EmptyDict
        /\ ( /\ LaterTurn
             /\ RequiredOf(last'.actual) # None
             /\ "window" \in DOMAIN RequiredOf(last'.actual)
             /\ RequiredOf(last'.actual).window \in DOMAIN windows
             /\ RequiredOf(last'.actual).in_options = FALSE ) =>
               /\ ~last'.raised
               /\ RequiredOf(last'.actual).var \in DOMAIN last'.saved.variables
      ]_vars

\* C4: at a window W with no required spec and an option list, a request_str
\* equal to no option's 'option' re-shows W: W is returned with the message
\* "Please select a valid option", the saved session is still at W and its
\* variables are those it had.
C4_NoMatchReprompts ==
    [][ ( /\ LaterTurn
          /\ RequiredOf(last'.actual) = None
          /\ HasOptionList(last'.actual)
          /\ Matches(last'.actual, last'.request.request_str) = {} ) =>
          /\ ~last'.raised
          /\ last'.window = Reprompt(last'.actual)
          /\ last'.window.name = last'.found.window
          /\ last'.saved.window = last'.found.window
          /\ last'.saved.variables = last'.found.variables
          /\ last'.selected = None
      ]_vars

\* a request that differs from an option only by case, or extends one, was
\* answered by the re-prompt
C4_Witness ==
    /\ last.request # None /\ last.found # None /\ ~last.raised
    /\ last.request.request_str \in {"A", "11"}
    /\ last.found.window = "MENU"
    /\ last.window.name = "MENU" /\ last.window.message = ValidationPrompt
    /\ last.saved.window = "MENU"

\* C5: at a window W with no required spec, a request_str equal to the
\* 'option' of some option moves the session to the window named by the
\* 'window' of the first such option in W's list (registered or mapped):
\* that window is returned and the saved session's 'window' is its name.
C5_FirstExactMatchTransitions ==
    [][ ( /\ LaterTurn
          /\ RequiredOf(last'.actual) = None
          /\ HasOptionList(last'.actual)
          /\ Matches(last'.actual, last'.request.request_str) # {}
          /\ FirstMatch(last'.actual, last'.request.request_str).window
                \in (DOMAIN windows) \cup (DOMAIN mapped_windows) ) =>
          LET target == FirstMatch(last'.actual, last'.request.request_str).window IN
          /\ ~last'.raised
          /\ last'.selected.option = last'.request.request_str
          /\ last'.window.name = target
          /\ target \notin DOMAIN mapped_windows => last'.window = windows[target]
          /\ target \in DOMAIN mapped_windows => last'.invoked = Append(last'.resolving, target)
          /\ last'.saved.window = target
      ]_vars

\* "1" at MENU, where two options carry "1": the first one's target is taken
C5_Witness ==
    /\ last.request # None /\ last.found # None /\ ~last.raised
    /\ last.found.window = "MENU" /\ last.request.request_str = "1"
    /\ last.window.name = "AGE" /\ last.saved.window = "AGE"

\* C6: at a window W whose required spec has in_options false and a
\* registered target NEXT, any request_str is stored verbatim in
\* session.variables[required.var], the registry's NEXT is returned and the
\* saved session is at NEXT.
C6_FreeTextCapture ==
    [][ ( /\ LaterTurn
          /\ RequiredOf(last'.actual) # None
          /\ "window" \in DOMAIN RequiredOf(last'.actual)
          /\ RequiredOf(last'.actual).in_options = FALSE
          /\ RequiredOf(last'.actual).window \in DOMAIN windows ) =>
          LET required == RequiredOf(last'.actual) IN
          /\ ~last'.raised
          /\ required.var \in DOMAIN last'.saved.variables
          /\ last'.saved.variables[required.var] = last'.request.request_str
          /\ last'.window = windows[required.window]
          /\ last'.saved.window = required.window
      ]_vars

\* C7: at a window W whose required spec has in_options true, a request_str
\* matching an option stores that option's 'display' (its 'option' when it
\* has no display) in session.variables[required.var] and moves the session
\* to required.window.  Stated for sessions that hold a variables mapping.
C7_InOptionsCapturesDisplay ==
    [][ ( /\ LaterTurn
          /\ RequiredOf(last'.actual) # None
          /\ "window" \in DOMAIN RequiredOf(last'.actual)
          /\ RequiredOf(last'.actual).in_options = TRUE
          /\ RequiredOf(last'.actual).window \in DOMAIN windows
          /\ HasOptionList(last'.actual)
          /\ Matches(last'.actual, last'.request.request_str) # {}
          /\ last'.found.variables # None ) =>
          LET required == RequiredOf(last'.actual)
              option == FirstMatch(last'.actual, last'.request.request_str)
          IN  /\ ~last'.raised
              /\ required.var \in DOMAIN last'.saved.variables
              /\ last'.saved.variables[required.var] =
                    IF "display" \in DOMAIN option THEN option.display ELSE option.option
              /\ last'.saved.window = required.window
      ]_vars

\* C8: at a window W whose required spec has in_options true (and a
\* registered target), a request_str matching no option does not advance: W
\* is returned with the validation message, the saved session is still at W
\* and its variables are unchanged.
C8_InOptionsNoMatchReprompts ==
    [][ ( /\ LaterTurn
          /\ RequiredOf(last'.actual) # None
          /\ "window" \in DOMAIN RequiredOf(last'.actual)
          /\ RequiredOf(last'.actual).in_options = TRUE
          /\ RequiredOf(last'.actual).window \in DOMAIN windows
          /\ HasOptionList(last'.actual)
          /\ Matches(last'.actual, last'.request.request_str) = {} ) =>
          /\ ~last'.raised
          /\ last'.window = Reprompt(last'.actual)
          /\ last'.saved.window = last'.found.window
          /\ last'.saved.variables = last'.found.variables
      ]_vars

\* C9: the current window of an existing session is the first non-empty
\* result of: the cache entry under the request's session_nr, the cache entry
\* under no session_nr, the processor registered under the name, the static
\* registry; the processor is invoked only when both cache lookups are empty.
C9_ResolutionOrder ==
    [][ (RequestStep /\ last'.found # None) =>
          LET name == last'.found.window
              nr == last'.request.session_nr
              entries == window_cache.entries
              expected ==
                  IF window_cache.configured /\ <<nr, name>> \in DOMAIN entries
                  THEN [window |-> entries[<<nr, name>>], by |-> << >>]
                  ELSE IF window_cache.configured /\ <<NoScope, name>> \in DOMAIN entries
                  THEN [window |-> entries[<<NoScope, name>>], by |-> << >>]
                  ELSE IF name \in DOMAIN mapped_windows
                  THEN [window |-> Processor(mapped_windows[name], name,
                                             last'.found, last'.request).window,
                        by |-> <<name>>]
                  ELSE IF name \in DOMAIN windows
                  THEN [window |-> windows[name], by |-> << >>]
                  ELSE [window |-> None, by |-> << >>]
          IN  /\ last'.actual = expected.window
              /\ last'.resolving = expected.by
      ]_vars

\* the session-scoped cache held the window of a name that has a processor:
\* the cached window was used and the processor was not invoked for it
C9_Witness ==
    /\ last.request # None /\ last.found # None
    /\ last.source = "scoped"
    /\ last.found.window \in DOMAIN mapped_windows
    /\ last.resolving = << >>
    /\ last.actual = window_cache.entries[<<last.request.session_nr, last.found.window>>]

\* C10: at a window whose required spec has no target 'window',
\* process_request does not raise and the result of the turn is the error
\* window (name ERROR, type MESSAGE, the supplied message).
C10_MissingTargetGivesErrorWindow ==
    [][ ( /\ LaterTurn
          /\ RequiredOf(last'.actual) # None
          /\ "window" \notin DOMAIN RequiredOf(last'.actual) ) =>
          /\ ~last'.raised
          /\ last'.window = create_error_window("Error processing your request")
      ]_vars

\* C11: when the name of the next window is unknown (the initial window, a
\* selected option's target, or required.window), process_request does not
\* raise: it returns an absent window, and window_response of it is absent.
C11_UnknownWindowYieldsAbsent ==
    [][ ( /\ RequestStep
          /\ \/ /\ last'.found = None
                /\ initial_window \notin (DOMAIN windows) \cup (DOMAIN mapped_windows)
             \/ /\ last'.found # None /\ last'.actual # None
                /\ RequiredOf(last'.actual) = None
                /\ HasOptionList(last'.actual)
                /\ Matches(last'.actual, last'.request.request_str) # {}
                /\ FirstMatch(last'.actual, last'.request.request_str).window
                      \notin (DOMAIN windows) \cup (DOMAIN mapped_windows)
             \/ /\ last'.found # None /\ last'.actual # None
                /\ RequiredOf(last'.actual) # None
                /\ "window" \in DOMAIN RequiredOf(last'.actual)
                /\ RequiredOf(last'.actual).window \notin DOMAIN windows ) =>
          /\ ~last'.raised
          /\ last'.window = None
          /\ window_response(last'.window) = [raised |-> FALSE, value |-> None]
      ]_vars

\* C12: when a request invokes processors (for the initial window, for the
\* session's current window, for a selected option's target), the session
\* that is saved is the one the last processor returned, itself given the
\* session the processor before it returned, with 'window' updated.
C12_ResolverSessionIsSaved ==
    [][ (RequestStep /\ ~last'.raised /\ last'.invoked # << >>) =>
          LET request == last'.request
              names == last'.invoked
              start == IF last'.found = None
                       THEN create_session(request.session_nr, request.cell_nr,
                                           initial_window, None)
                       ELSE last'.found
              first == Processor(mapped_windows[names[1]], names[1], start, request).session
              final == IF Len(names) = 2
                       THEN Processor(mapped_windows[names[2]], names[2], first, request).session
                       ELSE first
          IN  last'.saved = [final EXCEPT !.window = last'.window.name]
      ]_vars

\* C13: every window of the static registry keeps the title, message,
\* options and required spec it was registered with.
C13_StaticWindowsImmutable ==
    \A n \in DOMAIN StaticWindows :
        /\ n \in DOMAIN windows
        /\ windows[n].title = StaticWindows[n].title
        /\ windows[n].message = StaticWindows[n].message
        /\ windows[n].options = StaticWindows[n].options
        /\ RequiredOf(windows[n]) = RequiredOf(StaticWindows[n])

\* C14: at a window with no required spec whose option list is empty or
\* absent (options = None, as create_window leaves it by default) every
\* request re-prompts without a fault: the same window is returned with the
\* validation message and the saved session is still at it.
C14_NoOptionsAlwaysReprompts ==
    [][ ( /\ LaterTurn
          /\ RequiredOf(last'.actual) = None
          /\ \/ ~HasOptionList(last'.actual)
             \/ last'.actual.options = ListOf(<< >>) ) =>
          /\ ~last'.raised
          /\ last'.window = Reprompt(last'.actual)
          /\ last'.saved.window = last'.found.window
      ]_vars

\* C15: window_response of an absent window is absent; of any other window
\* it is a record with exactly the fields message, title and options, the
\* options being the window's options in order, each as {option, value}
\* with value the option's 'display'.
C15_ResponseProjection ==
    response.done =>
        IF response.window = None
        THEN ~response.raised /\ response.value = None
        ELSE /\ ~response.raised
             /\ DOMAIN response.value = {"message", "title", "options"}
             /\ response.value.message = response.window.message
             /\ response.value.title = response.window.title
             /\ HasOptionList(response.window) =>
                  /\ Len(response.value.options) = Len(response.window.options.list)
                  /\ \A i \in 1..Len(response.window.options.list) :
                        response.value.options[i] =
                            [option |-> response.window.options.list[i].option,
                             value  |-> response.window.options.list[i].display]
             /\ ~HasOptionList(response.window) => response.value.options = << >>

\* C16: the window built by create_window(..., required = R) carries R, so
\* a request of a session at it is handled by the capture rule: request_str
\* goes to variables[R.var] and the session moves to R.window.
C16_CreateWindowKeepsRequired ==
    [][ ( /\ LaterTurn
          /\ last'.found.window = "PIN"
          /\ last'.source = "static" ) =>
          /\ RequiredOf(last'.actual) = PinRequired
          /\ ~last'.raised =>
                /\ last'.saved.window = PinRequired.window
                /\ last'.saved.variables # None
                /\ PinRequired.var \in DOMAIN last'.saved.variables
                /\ last'.saved.variables[PinRequired.var] = last'.request.request_str
      ]_vars

\* With a window cache configured, a window produced by a processor as
\* the window to show (line 57 on a first turn, line 128 for a matched
\* option's target) is in the cache under (session_nr, window name) when
\* the request returns; cache entries are never removed; and a later
\* request of a session whose current window has a session-scoped entry
\* uses that entry as the current window without invoking the processor
\* of that name to resolve it.
C17_ShownStored ==
    (RequestStep /\ ~last'.raised /\ window_cache.configured
       /\ last'.invoked # last'.resolving) =>
        /\ last'.cached = last'.window
        /\ <<last'.request.session_nr, last'.window.name>> \in DOMAIN window_cache'.entries
        /\ window_cache'.entries[<<last'.request.session_nr, last'.window.name>>]
              = last'.window
        /\ last'.saved.window = last'.window.name

C17_EntriesKept ==
    \A k \in DOMAIN window_cache.entries : k \in DOMAIN window_cache'.entries

C17_ScopedEntryUsed ==
    (RequestStep /\ last'.found # None /\ window_cache.configured
       /\ <<last'.request.session_nr, last'.found.window>> \in DOMAIN window_cache.entries) =>
        /\ last'.source = "scoped"
        /\ last'.actual =
              window_cache.entries[<<last'.request.session_nr, last'.found.window>>]
        /\ last'.resolving = << >>

C17_NextRequestUsesCache ==
    (RequestStep /\ last.request # None /\ ~last.raised /\ last.cached # None
       /\ KeyOf(last'.request) = KeyOf(last.request)) =>
        /\ last'.source = "scoped"
        /\ last'.actual = last.window
        /\ last'.resolving = << >>

\* C17: a processor's window that is shown is stored in the configured cache
\* under the request's session_nr, stays there, and serves the session's
\* next request in place of the processor.
C17_ResolverWindowCached ==
    [][ /\ C17_ShownStored
        /\ C17_EntriesKept
        /\ C17_ScopedEntryUsed
        /\ C17_NextRequestUsesCache ]_vars

\* a request served from the session-scoped entry that a processor's
\* window was stored under
C17_Witness ==
    /\ last.request # None
    /\ ~last.raised
    /\ last.found # None
    /\ last.source = "scoped"
    /\ last.found.window \in DOMAIN mapped_windows
    /\ last.resolving = << >>
    /\ last.actual.name = last.found.window

\* C18: with no cache and no processor, the window a session gets on its
\* first turn is the registered initial window with the message it was
\* registered with, whatever other sessions have requested before.
C18_FirstTurnIndependentOfOthers ==
    [][ ( /\ RequestStep
          /\ last'.found = None
          /\ ~window_cache.configured
          /\ mapped_windows = EmptyDict
          /\ initial_window \in DOMAIN windows ) =>
          /\ ~last'.raised
          /\ last'.window = StaticWindows[initial_window]
      ]_vars

\* C19: a request resolved and handled without any processor leaves
\* session_nr and cell_nr as they were, changes no variable when the
\* current window has no required spec, and otherwise changes at most the
\* entry under required.var; a request that faults saves nothing.
C19_VariablesFrame ==
    [][ ( /\ RequestStep
          /\ last'.found # None
          /\ last'.invoked = << >> ) =>
          IF last'.raised
          THEN session_manager' = session_manager
          ELSE /\ last'.saved.session_nr = last'.found.session_nr
               /\ last'.saved.cell_nr = last'.found.cell_nr
               /\ session_manager'[KeyOf(last'.request)] = last'.saved
               /\ IF last'.found.variables = None
                  THEN last'.saved.variables = None
                  ELSE /\ last'.saved.variables # None
                       /\ \A k \in DOMAIN last'.found.variables :
                            /\ k \in DOMAIN last'.saved.variables
                            /\ (RequiredOf(last'.actual) = None
                                  \/ k # RequiredOf(last'.actual).var) =>
                                 last'.saved.variables[k] = last'.found.variables[k]
                       /\ \A k \in DOMAIN last'.saved.variables :
                            \/ k \in DOMAIN last'.found.variables
                            \/ /\ RequiredOf(last'.actual) # None
                               /\ k = RequiredOf(last'.actual).var
      ]_vars

\* a capture at a required window that kept an entry captured earlier
C19_Witness ==
    /\ last.request # None
    /\ ~last.raised
    /\ last.found # None
    /\ last.invoked = << >>
    /\ RequiredOf(last.actual) # None
    /\ last.found.variables # None
    /\ last.saved.variables # None
    /\ RequiredOf(last.actual).var \in DOMAIN last.saved.variables
    /\ RequiredOf(last.actual).var \notin DOMAIN last.found.variables
    /\ DOMAIN last.found.variables # {}

\* every window has an option list, and every option's 'window' and every
\* required 'window' names a registered window
Closed(wins) ==
    \A n \in DOMAIN wins :
        /\ HasOptionList(wins[n])
        /\ \A i \in 1..Len(wins[n].options.list) :
              wins[n].options.list[i].window \in DOMAIN wins
        /\ RequiredOf(wins[n]) # None => RequiredOf(wins[n]).window \in DOMAIN wins

\* C20: in a closed configuration with no cache, no processor and a
\* registered initial window, every saved session's 'window' is the name
\* of a registered window.
C20_SavedWindowRegistered ==
    ( /\ Closed(windows)
      /\ ~window_cache.configured
      /\ mapped_windows = EmptyDict
      /\ initial_window \in DOMAIN windows ) =>
        \A k \in DOMAIN session_manager :
            session_manager[k].window \in DOMAIN windows

\* a session saved after it moved away from the initial window
C20_Witness ==
    /\ Closed(windows)
    /\ last.request # None
    /\ ~last.raised
    /\ last.found # None
    /\ last.saved.window # last.found.window
    /\ last.saved.window # initial_window
    /\ session_manager[KeyOf(last.request)].window = last.saved.window

====
